---- MODULE Spec2Model ----
\* Backend authentication controller (authController.js): login, MFA
\* verification, password-reset request, token refresh and logout, as
\* interleaved request handlers; and the browser client (authService.js,
\* LoginScreen.jsx) with its two storages.
\* Every "await db.query(...)" of a handler is one atomic step on the store;
\* the synchronous code that follows it belongs to the same step.
\* Time is counted in seconds.  Strings whose content is inspected (username,
\* password) are sequences of one-character strings.

EXTENDS Integers, Sequences, FiniteSets, TLC

\* ------------------------------------------------------------------ bounds
MaxTime == 1800          \* the clock of the lockout workload stops here
MaxSeconds == 1          \* the clock of the token workload stops here
MaxTokens == 3           \* rows inserted into auth_tokens
MaxCodes == 2            \* rows inserted into mfa_codes
MaxAttempts == 2         \* rows inserted into login_attempts
MaxPreload == 3          \* failed attempts per user recorded before the start
MaxResets == 2           \* rows inserted into password_reset_tokens

\* ------------------------------------------------------- program constants
RateWindow == 900        \* loginLimiter.windowMs, 15 minutes
RateMax == 5             \* loginLimiter.max
LockWindow == 1800       \* INTERVAL '30 minutes'
LockThreshold == 5       \* count >= 5
MfaTtl == 600            \* setMinutes(+10)
TokenRowTtl == 604800    \* setDate(+7)
ResetTtl == 3600         \* setHours(+1)

Reqs == {1, 2}                           \* requests in flight at one time
Clients == {"k1", "k2"}                        \* rate-limiter keys (client address)
MfaCodeSample == {"100000", "999999"}    \* values generateMfaCode may return

\* ------------------------------------------------------------------- users
\* rows of the users table; every password is <<"p">>
Hash(pw) == <<"bcrypt">> \o pw

UserTable ==
  << [id |-> 1, username |-> <<"a">>, email |-> <<"a", "@">>,
      password_hash |-> Hash(<<"p">>), is_active |-> TRUE,  mfa_enabled |-> FALSE],
     [id |-> 2, username |-> <<"b">>, email |-> <<"b", "@">>,
      password_hash |-> Hash(<<"p">>), is_active |-> TRUE,  mfa_enabled |-> TRUE],
     [id |-> 3, username |-> <<"c">>, email |-> <<"c", "@">>,
      password_hash |-> Hash(<<"p">>), is_active |-> FALSE, mfa_enabled |-> FALSE] >>

UserIds == 1..Len(UserTable)

LoginNames == { <<>>, <<" ">>, <<"a">>, <<" ", "a">>, <<"a", "@">>, <<"b">>, <<"c">>, <<"z">> }
LoginPasswords == { <<>>, <<"p">>, <<"q">> }

\* addresses clients send to reset-request; "@" stands for the at sign and
\* the domain
ResetEmails == { <<>>, <<"a">>, <<"a", "@">>, <<"c", "@">>, <<"z", "@">> }
ResetTokenSample == {"uuid1", "uuid2"}   \* values uuidv4 may return

VARIABLES
  now,             \* wall clock, seconds
  users,           \* users table
  login_attempts,  \* login_attempts table, in insertion order
  mfa_codes,       \* mfa_codes table, in insertion order
  auth_tokens,     \* auth_tokens table, in insertion order
  limiter,         \* loginLimiter's store: per client, hits and window end
  req,             \* the requests in flight: handler position and locals
  reply,           \* the answer sent last: the endpoint and the response
  scope,           \* the workload of this run: what clients send, and how much
  password_reset_tokens,  \* password_reset_tokens table, in insertion order
  sent,            \* the mails sendEmail has delivered, in order
  localStorage,    \* the browser's durable storage
  sessionStorage,  \* the browser's session-scoped storage
  session          \* the browser page: the preference of the session and the call in flight

\* the browser side
client == <<localStorage, sessionStorage, session>>

vars == <<now, users, login_attempts, mfa_codes, auth_tokens, limiter, req, reply, scope,
          password_reset_tokens, sent, client>>

\* ----------------------------------------------------------------- helpers
RECURSIVE TrimLeft(_)
TrimLeft(s) == IF s # <<>> /\ Head(s) = " " THEN TrimLeft(Tail(s)) ELSE s

RECURSIVE TrimRight(_)
TrimRight(s) ==
  IF s # <<>> /\ s[Len(s)] = " " THEN TrimRight(SubSeq(s, 1, Len(s) - 1)) ELSE s

Trim(s) == TrimRight(TrimLeft(s))

Indices(table) == 1..Len(table)

\* bcrypt.compare(password, hash)
BcryptCompare(pw, hash) == Hash(pw) = hash

\* jwt.sign: the string is determined by the key, the payload (the user) and
\* the second of issue (iat); exp is iat plus the lifetime
JwtSign(secret, uid, iat) == <<secret, uid, iat>>

generateTokens(uid, t) ==
  [token |-> JwtSign("JWT_SECRET", uid, t),
   refresh_token |-> JwtSign("JWT_REFRESH_SECRET", uid, t)]

NoTokens == [token |-> <<>>, refresh_token |-> <<>>]

\* responses
NoResp == [status |-> 0, kind |-> "", error |-> ""]
Err(st, msg) == [status |-> st, kind |-> "error", error |-> msg]
OkTokens == [status |-> 200, kind |-> "tokens", error |-> ""]
OkRequireMfa == [status |-> 200, kind |-> "requireMfa", error |-> ""]
OkLogout == [status |-> 200, kind |-> "ack", error |-> ""]

MsgRateLimited == "Muitas tentativas de login. Tente novamente em 15 minutos."
MsgUserRequired == "Usuario ou e-mail e obrigatorio"
MsgPasswordRequired == "Senha e obrigatoria"
MsgInvalidCredentials == "Usuario ou senha invalidos"
MsgInactive == "Conta desativada. Entre em contato com o suporte."
MsgBlocked == "Conta bloqueada. Tente novamente em 30 minutos."
MsgCodeRequired == "Codigo de verificacao e obrigatorio"
MsgCodeInvalid == "Codigo invalido ou expirado"
MsgUserNotFound == "Usuario nao encontrado"
MsgRefreshMissing == "Refresh token nao fornecido"
MsgRefreshInvalid == "Refresh token invalido ou expirado"
MsgUserGone == "Usuario nao encontrado ou desativado"
MsgNoBearer == "Token nao fornecido"
MsgEmailInvalid == "E-mail invalido"
MsgInternal == "Erro interno do servidor"

OkReset == [status |-> 200, kind |-> "resetAck", error |-> ""]

\* a request slot
Idle ==
  [op |-> "idle", pc |-> "idle", username |-> <<>>, password |-> <<>>,
   uid |-> 0, code |-> "", presented |-> <<>>, hit |-> 0,
   tokens |-> NoTokens, expiresAt |-> 0, email |-> <<>>, resetToken |-> ""]

\* requests take the lowest free slot
Free(r) == req[r].pc = "idle" /\ \A q \in Reqs : q < r => req[q].pc # "idle"

Reply(op, resp) == [op |-> op, resp |-> resp]

\* ------------------------------------------------------------------- store
\* SELECT * FROM users WHERE username = $1 OR email = $1
UsersByName(name) ==
  { i \in UserIds : users[i].username = name \/ users[i].email = name }

\* SELECT COUNT(*) FROM login_attempts WHERE user_id = $1 AND success = FALSE
\*   AND created_at > NOW() - INTERVAL '30 minutes'
checkUserBlockedAlt(uid) ==
  Cardinality({ i \in Indices(login_attempts) :
      /\ login_attempts[i].user_id = uid
      /\ login_attempts[i].success = FALSE
      /\ login_attempts[i].created_at > now - LockWindow }) > LockThreshold

checkUserBlockedNoWindow(uid) ==
  Cardinality({ i \in Indices(login_attempts) :
      /\ login_attempts[i].user_id = uid
      /\ login_attempts[i].success = FALSE }) >= LockThreshold

checkUserBlocked(uid) ==
  Cardinality({ i \in Indices(login_attempts) :
      /\ login_attempts[i].user_id = uid
      /\ login_attempts[i].success = FALSE
      /\ login_attempts[i].created_at > now - LockWindow }) >= LockThreshold

\* SELECT mfa_enabled FROM users WHERE id = $1
checkMfaEnabled(uid) == users[uid].mfa_enabled

\* INSERT INTO login_attempts (user_id, success) VALUES ($1, FALSE);
\* created_at is the time of the insert
recordFailedAttemptTwice(uid) ==
  Append(Append(login_attempts, [user_id |-> uid, success |-> FALSE, created_at |-> now]),
         [user_id |-> uid, success |-> FALSE, created_at |-> now])

recordFailedAttempt(uid) ==
  Append(login_attempts, [user_id |-> uid, success |-> FALSE, created_at |-> now])

\* INSERT INTO mfa_codes (user_id, code, expires_at); used starts FALSE.
\* issued_at records the time of the insert.
storeMfaCode(uid, code, expiresAt) ==
  Append(mfa_codes, [user_id |-> uid, code |-> code, expires_at |-> expiresAt,
                     used |-> FALSE, issued_at |-> now])

\* INSERT INTO auth_tokens (user_id, token, refresh_token, expires_at);
\* revoked starts FALSE.  via and src record which handler stored the row and
\* the row (of mfa_codes or auth_tokens) it was derived from; logged_out
\* records that a logout has revoked the row.
storeTokens(uid, tokens, expiresAt, via, src) ==
  Append(auth_tokens, [user_id |-> uid, token |-> tokens.token,
                       refresh_token |-> tokens.refresh_token,
                       expires_at |-> expiresAt, revoked |-> FALSE,
                       via |-> via, src |-> src, logged_out |-> FALSE])

\* sendEmail (emailService, not part of the sources): the mail is delivered
sendEmail(to, body) == Append(sent, [to |-> to, body |-> body])

\* ---------------------------------------------------------- loginLimiter
\* express-rate-limit with the memory store: a counter per client that starts
\* again when its window has ended; every request counts, also a refused one
\* (the counter is not followed beyond max + 1)
LimiterHit(k) ==
  LET cur == IF now >= limiter[k].resetTime
             THEN [hits |-> 0, resetTime |-> now + RateWindow]
             ELSE limiter[k]
  IN [cur EXCEPT !.hits = IF cur.hits > RateMax THEN cur.hits ELSE cur.hits + 1]

LimiterRefusesAlt(k) == LimiterHit(k).hits > RateMax + 1

LimiterRefuses(k) == LimiterHit(k).hits > RateMax

\* ---------------------------------------------------------------- bounds
\* requests in flight that may still insert a row
Pending(pcs) == Cardinality({ r \in Reqs : req[r].pc \in pcs })

Inserted(table) == Cardinality({ i \in Indices(table) : table[i].created_at >= 0 })

RoomForAttempt ==
  Inserted(login_attempts) + Pending({"l_findUser", "l_recordFail"}) < scope.attempts

RoomForCode ==
  Len(mfa_codes) + Pending({"l_findUser", "l_checkBlocked", "l_checkMfa", "l_storeMfa"})
    < scope.codes

TokenInserters ==
  {"l_findUser", "l_checkBlocked", "l_checkMfa", "l_storeTokens",
   "m_verify", "m_findUser", "m_storeTokens",
   "r_findToken", "r_findUser", "r_revoke", "r_storeTokens"}

RoomForTokens == Len(auth_tokens) + Pending(TokenInserters) < scope.tokens

\* what a login with these (trimmed) inputs will insert, as the tables stand
LoginNeedsRoom(name, pw) ==
  \A i \in UsersByName(name) :
     users[i].is_active =>
        IF ~BcryptCompare(pw, users[i].password_hash) THEN RoomForAttempt
        ELSE IF users[i].mfa_enabled THEN RoomForCode
        ELSE RoomForTokens

\* ---------------------------------------------------------------- browser
\* the keys the client uses: authService's tokenKey and refreshTokenKey, and
\* the key LoginScreen writes the refresh token under
StorageKeys == {"token", "refresh_token", "refreshToken"}

\* getItem of a key that is not set
Null == <<>>

EmptyStorage == [k \in StorageKeys |-> Null]

\* no session has started and no call of authService is in flight
NoSession == [remember |-> "none", call |-> "none", sentToken |-> Null]

\* ------------------------------------------------------------------- Init
\* failed attempts of the two active users recorded just before the start
Preload ==
  [i \in 1..(2 * MaxPreload) |->
     [user_id |-> IF i <= MaxPreload THEN 1 ELSE 2, success |-> FALSE, created_at |-> -1]]

\* Workloads.  Each run serves one of them: the endpoints that are called, the
\* credentials that are sent, the rows that may be inserted, and the clock.
ScopeLockout ==
  [ops |-> {"login"}, names |-> {<<"a">>}, passwords |-> {<<"p">>, <<"q">>},
   clients |-> {"k1"}, sample |-> {"100000"},
   preload |-> TRUE, attempts |-> MaxAttempts, codes |-> 1, tokens |-> 1,
   resets |-> 0, emails |-> {},
   step |-> RateWindow, maxTime |-> MaxTime]

ScopeLockoutMfa ==
  [ops |-> {"login"}, names |-> {<<"b">>}, passwords |-> {<<"p">>, <<"q">>},
   clients |-> {"k1"}, sample |-> {"100000"},
   preload |-> TRUE, attempts |-> MaxAttempts, codes |-> 1, tokens |-> 1,
   resets |-> 0, emails |-> {},
   step |-> RateWindow, maxTime |-> MaxTime]

ScopeLockoutBoth ==
  [ops |-> {"login"}, names |-> {<<"a">>, <<"b">>}, passwords |-> {<<"p">>, <<"q">>},
   clients |-> {"k1"}, sample |-> {"100000"},
   preload |-> TRUE, attempts |-> MaxAttempts, codes |-> 1, tokens |-> 1,
   resets |-> 0, emails |-> {},
   step |-> RateWindow, maxTime |-> 0]

ScopeLogin ==
  [ops |-> {"login"}, names |-> LoginNames, passwords |-> LoginPasswords,
   clients |-> {"k1"}, sample |-> {"100000"},
   preload |-> FALSE, attempts |-> 1, codes |-> 0, tokens |-> 1,
   resets |-> 0, emails |-> {},
   step |-> RateWindow, maxTime |-> 0]

ScopeRate ==
  [ops |-> {"login"}, names |-> {<<"a">>, <<"z">>}, passwords |-> {<<"p">>},
   clients |-> Clients, sample |-> {"100000"},
   preload |-> FALSE, attempts |-> 0, codes |-> 0, tokens |-> 1,
   resets |-> 0, emails |-> {},
   step |-> RateWindow, maxTime |-> RateWindow]

ScopeMfa ==
  [ops |-> {"login", "verify"}, names |-> {<<"b">>}, passwords |-> {<<"p">>},
   clients |-> {"k1"}, sample |-> {"100000"},
   preload |-> FALSE, attempts |-> 0, codes |-> MaxCodes, tokens |-> MaxCodes,
   resets |-> 0, emails |-> {},
   step |-> MfaTtl, maxTime |-> MfaTtl]

ScopeMfaValues ==
  [ops |-> {"login", "verify"}, names |-> {<<"b">>}, passwords |-> {<<"p">>},
   clients |-> {"k1"}, sample |-> MfaCodeSample,
   preload |-> FALSE, attempts |-> 0,
   codes |-> Cardinality(MfaCodeSample), tokens |-> Cardinality(MfaCodeSample),
   resets |-> 0, emails |-> {},
   step |-> MfaTtl, maxTime |-> 0]

ScopeMfaExpiry ==
  [ops |-> {"login", "verify"}, names |-> {<<"b">>}, passwords |-> {<<"p">>},
   clients |-> {"k1"}, sample |-> {"100000"},
   preload |-> FALSE, attempts |-> 0, codes |-> 1, tokens |-> 1,
   resets |-> 0, emails |-> {},
   step |-> MfaTtl \div 2, maxTime |-> MfaTtl + MfaTtl \div 2]

ScopeMfaRefresh ==
  [ops |-> {"login", "verify", "refresh"}, names |-> {<<"b">>}, passwords |-> {<<"p">>},
   clients |-> {"k1"}, sample |-> {"100000"},
   preload |-> FALSE, attempts |-> 0, codes |-> 1, tokens |-> 2,
   resets |-> 0, emails |-> {},
   step |-> MfaTtl, maxTime |-> 0]

ScopeTokens ==
  [ops |-> {"login", "refresh"}, names |-> {<<"a">>}, passwords |-> {<<"p">>},
   clients |-> {"k1"}, sample |-> {"100000"},
   preload |-> FALSE, attempts |-> 0, codes |-> 0, tokens |-> MaxTokens,
   resets |-> 0, emails |-> {},
   step |-> 1, maxTime |-> MaxSeconds]

ScopeLogout ==
  [ops |-> {"login", "logout"}, names |-> {<<"a">>}, passwords |-> {<<"p">>},
   clients |-> {"k1"}, sample |-> {"100000"},
   preload |-> FALSE, attempts |-> 0, codes |-> 0, tokens |-> MaxTokens,
   resets |-> 0, emails |-> {},
   step |-> 1, maxTime |-> MaxSeconds]

ScopeSession ==
  [ops |-> {"login", "refresh", "logout"}, names |-> {<<"a">>}, passwords |-> {<<"p">>},
   clients |-> {"k1"}, sample |-> {"100000"},
   preload |-> FALSE, attempts |-> 0, codes |-> 0, tokens |-> MaxTokens,
   resets |-> 0, emails |-> {},
   step |-> 1, maxTime |-> 0]

ScopeDeactivate ==
  [ops |-> {"login", "verify", "refresh", "deactivate"},
   names |-> {<<"b">>}, passwords |-> {<<"p">>},
   clients |-> {"k1"}, sample |-> {"100000"},
   preload |-> FALSE, attempts |-> 0, codes |-> 1, tokens |-> 1,
   resets |-> 0, emails |-> {},
   step |-> 1, maxTime |-> 0]

ScopeReset ==
  [ops |-> {"reset"}, names |-> {}, passwords |-> {},
   clients |-> {"k1"}, sample |-> {"100000"},
   preload |-> FALSE, attempts |-> 0, codes |-> 0, tokens |-> 0,
   resets |-> MaxResets, emails |-> ResetEmails,
   step |-> ResetTtl, maxTime |-> 0]

ScopeClient ==
  [ops |-> {"client"}, names |-> {}, passwords |-> {},
   clients |-> {"k1"}, sample |-> {"100000"},
   preload |-> FALSE, attempts |-> 0, codes |-> 0, tokens |-> 0,
   resets |-> 0, emails |-> {},
   step |-> 1, maxTime |-> 0]

Scopes ==
  {ScopeLockout, ScopeLockoutMfa, ScopeLockoutBoth, ScopeLogin, ScopeRate,
   ScopeMfa, ScopeMfaValues, ScopeMfaExpiry, ScopeMfaRefresh, ScopeTokens, ScopeLogout, ScopeSession,
   ScopeDeactivate, ScopeReset, ScopeClient}

\* the workloads that are also run with a store and a mailer that may fail
FaultScopes ==
  {ScopeLogin, ScopeRate, ScopeMfaRefresh, ScopeSession, ScopeDeactivate, ScopeReset,
   ScopeClient}

Init ==
  /\ scope \in Scopes
  /\ now = 0
  /\ users = UserTable
  /\ login_attempts = IF scope.preload THEN Preload ELSE <<>>
  /\ mfa_codes = <<>>
  /\ auth_tokens = <<>>
  /\ limiter = [k \in Clients |-> [hits |-> 0, resetTime |-> 0]]
  /\ req = [r \in Reqs |-> Idle]
  /\ reply = Reply("", NoResp)
  /\ password_reset_tokens = <<>>
  /\ sent = <<>>
  /\ localStorage = EmptyStorage
  /\ sessionStorage = EmptyStorage
  /\ session = NoSession

\* the handler of r answers: res.status(..).json(..)
Answer(r, op, resp) ==
  /\ req' = [req EXCEPT ![r] = Idle]
  /\ reply' = Reply(op, resp)

\* the handler of r goes on to its next await
Goto(r, s) ==
  /\ req' = [req EXCEPT ![r] = s]
  /\ UNCHANGED reply

\* ------------------------------------------------------------ POST /login
\* the request arrives: loginLimiter, then loginValidation (trim, notEmpty)
LoginArriveNoTrim(r, k, username, password) ==
  /\ Free(r)
  /\ "login" \in scope.ops /\ k \in scope.clients
  /\ username \in scope.names /\ password \in scope.passwords
  /\ LoginNeedsRoom(username, password)
  /\ limiter' = [limiter EXCEPT ![k] = LimiterHit(k)]
  /\ IF LimiterRefuses(k)
       THEN Answer(r, "login", Err(429, MsgRateLimited))
     ELSE IF username = <<>>
       THEN Answer(r, "login", Err(400, MsgUserRequired))
     ELSE IF password = <<>>
       THEN Answer(r, "login", Err(400, MsgPasswordRequired))
     ELSE Goto(r, [Idle EXCEPT !.op = "login", !.pc = "l_findUser",
                               !.username = username,
                               !.password = password])
  /\ UNCHANGED <<now, users, password_reset_tokens, sent, client,
                login_attempts, mfa_codes, auth_tokens, scope>>

LoginArrive(r, k, username, password) ==
  /\ Free(r)
  /\ "login" \in scope.ops /\ k \in scope.clients
  /\ username \in scope.names /\ password \in scope.passwords
  /\ LoginNeedsRoom(Trim(username), Trim(password))
  /\ limiter' = [limiter EXCEPT ![k] = LimiterHit(k)]
  /\ IF LimiterRefuses(k)
       THEN Answer(r, "login", Err(429, MsgRateLimited))
     ELSE IF Trim(username) = <<>>
       THEN Answer(r, "login", Err(400, MsgUserRequired))
     ELSE IF Trim(password) = <<>>
       THEN Answer(r, "login", Err(400, MsgPasswordRequired))
     ELSE Goto(r, [Idle EXCEPT !.op = "login", !.pc = "l_findUser",
                               !.username = Trim(username),
                               !.password = Trim(password)])
  /\ UNCHANGED <<now, users, password_reset_tokens, sent, client,
                login_attempts, mfa_codes, auth_tokens, scope>>

\* SELECT user; is_active; bcrypt.compare
LoginFindUser(r) ==
  /\ req[r].pc = "l_findUser"
  /\ LET rows == UsersByName(req[r].username)
     IN IF rows = {}
          THEN Answer(r, "login", Err(401, MsgInvalidCredentials))
          ELSE LET userData == users[CHOOSE i \in rows : \A j \in rows : i <= j]
               IN IF ~userData.is_active
                    THEN Answer(r, "login", Err(401, MsgInactive))
                  ELSE IF ~BcryptCompare(req[r].password, userData.password_hash)
                    THEN Goto(r, [Idle EXCEPT !.op = "login", !.pc = "l_recordFail",
                                              !.uid = userData.id])
                  ELSE Goto(r, [Idle EXCEPT !.op = "login", !.pc = "l_checkBlocked",
                                            !.uid = userData.id])
  /\ UNCHANGED <<now, users, password_reset_tokens, sent, client,
                login_attempts, mfa_codes, auth_tokens, limiter, scope>>

\* recordFailedAttempt, then 401
LoginRecordFail(r) ==
  /\ req[r].pc = "l_recordFail"
  /\ login_attempts' = recordFailedAttempt(req[r].uid)
  /\ Answer(r, "login", Err(401, MsgInvalidCredentials))
  /\ UNCHANGED <<now, users, password_reset_tokens, sent, client,
                mfa_codes, auth_tokens, limiter, scope>>

\* checkUserBlocked
LoginCheckBlockedAlt(r) ==
  /\ req[r].pc = "l_checkBlocked"
  /\ IF checkUserBlocked(req[r].uid)
       THEN Answer(r, "login", Err(401, MsgInvalidCredentials))
       ELSE Goto(r, [req[r] EXCEPT !.pc = "l_checkMfa"])
  /\ UNCHANGED <<now, users, password_reset_tokens, sent, client,
                login_attempts, mfa_codes, auth_tokens, limiter, scope>>

LoginCheckBlocked(r) ==
  /\ req[r].pc = "l_checkBlocked"
  /\ IF checkUserBlocked(req[r].uid)
       THEN Answer(r, "login", Err(401, MsgBlocked))
       ELSE Goto(r, [req[r] EXCEPT !.pc = "l_checkMfa"])
  /\ UNCHANGED <<now, users, password_reset_tokens, sent, client,
                login_attempts, mfa_codes, auth_tokens, limiter, scope>>

\* checkMfaEnabled; then generateMfaCode and the expiry of storeMfaCode, or
\* generateTokens and the expiry of storeTokens
LoginCheckMfaAlt(r) ==
  /\ req[r].pc = "l_checkMfa"
  /\ Goto(r, [req[r] EXCEPT !.pc = "l_storeTokens",
                            !.tokens = generateTokens(req[r].uid, now),
                            !.expiresAt = now + TokenRowTtl])
  /\ UNCHANGED <<now, users, password_reset_tokens, sent, client,
                login_attempts, mfa_codes, auth_tokens, limiter, scope>>

LoginCheckMfa(r) ==
  /\ req[r].pc = "l_checkMfa"
  /\ IF checkMfaEnabled(req[r].uid)
       THEN \E mfaCode \in scope.sample :
              Goto(r, [req[r] EXCEPT !.pc = "l_storeMfa", !.code = mfaCode,
                                     !.expiresAt = now + MfaTtl])
       ELSE Goto(r, [req[r] EXCEPT !.pc = "l_storeTokens",
                                   !.tokens = generateTokens(req[r].uid, now),
                                   !.expiresAt = now + TokenRowTtl])
  /\ UNCHANGED <<now, users, password_reset_tokens, sent, client,
                login_attempts, mfa_codes, auth_tokens, limiter, scope>>

\* storeMfaCode's INSERT
LoginStoreMfa(r) ==
  /\ req[r].pc = "l_storeMfa"
  /\ mfa_codes' = storeMfaCode(req[r].uid, req[r].code, req[r].expiresAt)
  /\ Goto(r, [req[r] EXCEPT !.pc = "l_sendMfa", !.expiresAt = 0])
  /\ UNCHANGED <<now, users, password_reset_tokens, sent, client,
                login_attempts, auth_tokens, limiter, scope>>

\* sendMfaCode, then 200 requireMfa
LoginSendMfa(r) ==
  /\ req[r].pc = "l_sendMfa"
  /\ sent' = sendEmail(users[req[r].uid].email, req[r].code)
  /\ Answer(r, "login", OkRequireMfa)
  /\ UNCHANGED <<now, users, password_reset_tokens, client, login_attempts, mfa_codes,
                 auth_tokens, limiter, scope>>

\* storeTokens' INSERT, then 200 with the tokens
LoginStoreTokensClearing(r) ==
  /\ req[r].pc = "l_storeTokens"
  /\ auth_tokens' = storeTokens(req[r].uid, req[r].tokens, req[r].expiresAt, "login", 0)
  /\ login_attempts' =
       SelectSeq(login_attempts, LAMBDA a : a.user_id # req[r].uid)
  /\ Answer(r, "login", OkTokens)
  /\ UNCHANGED <<now, users, password_reset_tokens, sent, client,
                mfa_codes, limiter, scope>>

LoginStoreTokens(r) ==
  /\ req[r].pc = "l_storeTokens"
  /\ auth_tokens' = storeTokens(req[r].uid, req[r].tokens, req[r].expiresAt, "login", 0)
  /\ Answer(r, "login", OkTokens)
  /\ UNCHANGED <<now, users, password_reset_tokens, sent, client,
                login_attempts, mfa_codes, limiter, scope>>

\* ------------------------------------------------------- POST /mfa/verify
VerifyCodes == MfaCodeSample \cup {""}

\* SELECT * FROM mfa_codes WHERE code = $1 AND used = FALSE AND expires_at > NOW()
verifyMfaCodeAlt(code) ==
  { i \in Indices(mfa_codes) :
      /\ mfa_codes[i].code = code
      /\ mfa_codes[i].expires_at > now }

verifyMfaCodeNoExpiry(code) ==
  { i \in Indices(mfa_codes) :
      /\ mfa_codes[i].code = code
      /\ mfa_codes[i].used = FALSE }

verifyMfaCode(code) ==
  { i \in Indices(mfa_codes) :
      /\ mfa_codes[i].code = code
      /\ mfa_codes[i].used = FALSE
      /\ mfa_codes[i].expires_at > now }

\* a verification that may find its code
VerifyNeedsRoom(code) ==
  /\ code # ""
  /\ verifyMfaCode(code) # {} \/ Pending({"l_findUser", "l_checkBlocked", "l_checkMfa", "l_storeMfa"}) > 0

VerifyArrive(r, code) ==
  /\ Free(r)
  /\ "verify" \in scope.ops
  /\ VerifyNeedsRoom(code) => RoomForTokens
  /\ IF code = ""
       THEN Answer(r, "verify", Err(400, MsgCodeRequired))
       ELSE Goto(r, [Idle EXCEPT !.op = "verify", !.pc = "m_verify", !.code = code])
  /\ UNCHANGED <<now, users, password_reset_tokens, sent, client,
                login_attempts, mfa_codes, auth_tokens, limiter, scope>>

\* verifyMfaCode: rows[0] is any of the matching rows (the query has no order)
VerifyLookup(r) ==
  /\ req[r].pc = "m_verify"
  /\ LET rows == verifyMfaCode(req[r].code)
     IN IF rows = {}
          THEN Answer(r, "verify", Err(401, MsgCodeInvalid))
          ELSE \E i \in rows :
                 Goto(r, [req[r] EXCEPT !.pc = "m_findUser", !.hit = i,
                                        !.uid = mfa_codes[i].user_id])
  /\ UNCHANGED <<now, users, password_reset_tokens, sent, client,
                login_attempts, mfa_codes, auth_tokens, limiter, scope>>

\* SELECT * FROM users WHERE id = $1; generateTokens and storeTokens' expiry
VerifyFindUser(r) ==
  /\ req[r].pc = "m_findUser"
  /\ IF req[r].uid \notin UserIds
       THEN Answer(r, "verify", Err(404, MsgUserNotFound))
       ELSE Goto(r, [req[r] EXCEPT !.pc = "m_storeTokens",
                                   !.tokens = generateTokens(req[r].uid, now),
                                   !.expiresAt = now + TokenRowTtl])
  /\ UNCHANGED <<now, users, password_reset_tokens, sent, client,
                login_attempts, mfa_codes, auth_tokens, limiter, scope>>

\* storeTokens' INSERT
VerifyStoreTokens(r) ==
  /\ req[r].pc = "m_storeTokens"
  /\ auth_tokens' = storeTokens(req[r].uid, req[r].tokens, req[r].expiresAt,
                                "mfa", req[r].hit)
  /\ Goto(r, [req[r] EXCEPT !.pc = "m_markUsed", !.expiresAt = 0,
                            !.tokens = NoTokens])
  /\ UNCHANGED <<now, users, password_reset_tokens, sent, client,
                login_attempts, mfa_codes, limiter, scope>>

\* UPDATE mfa_codes SET used = TRUE WHERE code = $1
markMfaCodeAsUsed(code) ==
  [i \in Indices(mfa_codes) |->
     IF mfa_codes[i].code = code THEN [mfa_codes[i] EXCEPT !.used = TRUE]
                                 ELSE mfa_codes[i]]

\* markMfaCodeAsUsed, then 200 with the tokens
VerifyMarkUsed(r) ==
  /\ req[r].pc = "m_markUsed"
  /\ mfa_codes' = markMfaCodeAsUsed(req[r].code)
  /\ Answer(r, "verify", OkTokens)
  /\ UNCHANGED <<now, users, password_reset_tokens, sent, client,
                login_attempts, auth_tokens, limiter, scope>>

\* ---------------------------------------------------- POST /refresh-token
BogusRefresh == JwtSign("JWT_REFRESH_SECRET", 0, 0)

RefreshInputs ==
  {<<>>, BogusRefresh} \cup { auth_tokens[i].refresh_token : i \in Indices(auth_tokens) }

\* SELECT * FROM auth_tokens WHERE refresh_token = $1 AND revoked = FALSE
\*   AND expires_at > NOW()
ValidRefreshRows(refresh_token) ==
  { i \in Indices(auth_tokens) :
      /\ auth_tokens[i].refresh_token = refresh_token
      /\ auth_tokens[i].revoked = FALSE
      /\ auth_tokens[i].expires_at > now }

\* a refresh that may find its token
RefreshNeedsRoom(refresh_token) ==
  /\ refresh_token # <<>>
  /\ ValidRefreshRows(refresh_token) # {} \/ Pending(TokenInserters) > 0

RefreshArriveWith(r, refresh_token) ==
  /\ Free(r)
  /\ "refresh" \in scope.ops
  /\ refresh_token \in RefreshInputs
  /\ RefreshNeedsRoom(refresh_token) => RoomForTokens
  /\ IF refresh_token = <<>>
       THEN Answer(r, "refresh", Err(400, MsgRefreshMissing))
       ELSE Goto(r, [Idle EXCEPT !.op = "refresh", !.pc = "r_findToken",
                                 !.presented = refresh_token])
  /\ UNCHANGED <<now, users, password_reset_tokens, sent, client,
                login_attempts, mfa_codes, auth_tokens, limiter, scope>>

RefreshArrive(r) == \E refresh_token \in RefreshInputs : RefreshArriveWith(r, refresh_token)

RefreshFindToken(r) ==
  /\ req[r].pc = "r_findToken"
  /\ LET rows == ValidRefreshRows(req[r].presented)
     IN IF rows = {}
          THEN Answer(r, "refresh", Err(401, MsgRefreshInvalid))
          ELSE \E i \in rows :
                 Goto(r, [req[r] EXCEPT !.pc = "r_findUser", !.hit = i,
                                        !.uid = auth_tokens[i].user_id])
  /\ UNCHANGED <<now, users, password_reset_tokens, sent, client,
                login_attempts, mfa_codes, auth_tokens, limiter, scope>>

\* SELECT * FROM users WHERE id = $1 AND is_active = TRUE
RefreshFindUser(r) ==
  /\ req[r].pc = "r_findUser"
  /\ IF req[r].uid \notin UserIds \/ ~users[req[r].uid].is_active
       THEN Answer(r, "refresh", Err(404, MsgUserGone))
       ELSE Goto(r, [req[r] EXCEPT !.pc = "r_revoke"])
  /\ UNCHANGED <<now, users, password_reset_tokens, sent, client,
                login_attempts, mfa_codes, auth_tokens, limiter, scope>>

\* UPDATE auth_tokens SET revoked = TRUE WHERE refresh_token = $1
RevokeByRefreshNone(refresh_token) == auth_tokens

RevokeByRefresh(refresh_token) ==
  [i \in Indices(auth_tokens) |->
     IF auth_tokens[i].refresh_token = refresh_token
       THEN [auth_tokens[i] EXCEPT !.revoked = TRUE]
       ELSE auth_tokens[i]]

\* the revoking UPDATE; generateTokens and storeTokens' expiry
RefreshRevoke(r) ==
  /\ req[r].pc = "r_revoke"
  /\ auth_tokens' = RevokeByRefresh(req[r].presented)
  /\ Goto(r, [req[r] EXCEPT !.pc = "r_storeTokens",
                            !.tokens = generateTokens(req[r].uid, now),
                            !.expiresAt = now + TokenRowTtl])
  /\ UNCHANGED <<now, users, password_reset_tokens, sent, client,
                login_attempts, mfa_codes, limiter, scope>>

\* storeTokens' INSERT, then 200 with the new tokens
RefreshStoreTokens(r) ==
  /\ req[r].pc = "r_storeTokens"
  /\ auth_tokens' = storeTokens(req[r].uid, req[r].tokens, req[r].expiresAt,
                                "refresh", req[r].hit)
  /\ Answer(r, "refresh", OkTokens)
  /\ UNCHANGED <<now, users, password_reset_tokens, sent, client,
                login_attempts, mfa_codes, limiter, scope>>

\* ------------------------------------------------------------ POST /logout
LogoutInputs == {<<>>} \cup { auth_tokens[i].token : i \in Indices(auth_tokens) }

\* a missing Authorization header is <<>>
LogoutArrive(r) ==
  /\ Free(r)
  /\ "logout" \in scope.ops
  /\ \E bearer \in LogoutInputs :
       IF bearer = <<>>
         THEN Answer(r, "logout", Err(401, MsgNoBearer))
         ELSE Goto(r, [Idle EXCEPT !.op = "logout", !.pc = "o_revoke",
                                   !.presented = bearer])
  /\ UNCHANGED <<now, users, password_reset_tokens, sent, client,
                login_attempts, mfa_codes, auth_tokens, limiter, scope>>

\* UPDATE auth_tokens SET revoked = TRUE WHERE token = $1
RevokeByToken(token) ==
  [i \in Indices(auth_tokens) |->
     IF auth_tokens[i].token = token
       THEN [auth_tokens[i] EXCEPT !.revoked = TRUE, !.logged_out = TRUE]
       ELSE auth_tokens[i]]

LogoutRevoke(r) ==
  /\ req[r].pc = "o_revoke"
  /\ auth_tokens' = RevokeByToken(req[r].presented)
  /\ Answer(r, "logout", OkLogout)
  /\ UNCHANGED <<now, users, password_reset_tokens, sent, client,
                login_attempts, mfa_codes, limiter, scope>>

\* ------------------------------------------- POST /password/reset-request
\* express-validator's isEmail on these addresses: a local part without
\* blanks, followed by the domain
IsEmail(s) ==
  /\ Len(s) >= 2
  /\ s[Len(s)] = "@"
  /\ \A i \in 1..(Len(s) - 1) : s[i] \notin {"@", " "}

\* SELECT * FROM users WHERE email = $1
UsersByEmail(email) == { i \in Indices(users) : users[i].email = email }

RoomForReset ==
  Len(password_reset_tokens) + Pending({"p_findUser", "p_storeToken"}) < scope.resets

\* the request arrives: body('email').isEmail()
ResetArrive(r, email) ==
  /\ Free(r)
  /\ "reset" \in scope.ops /\ email \in scope.emails
  /\ (IsEmail(email) /\ UsersByEmail(email) # {}) => RoomForReset
  /\ IF ~IsEmail(email)
       THEN Answer(r, "reset", Err(400, MsgEmailInvalid))
       ELSE Goto(r, [Idle EXCEPT !.op = "reset", !.pc = "p_findUser", !.email = email])
  /\ UNCHANGED <<now, users, password_reset_tokens, sent, client,
                 login_attempts, mfa_codes, auth_tokens, limiter, scope>>

\* SELECT user by email; unknown: the generic 200; known: uuidv4 and expiry
ResetFindUser(r) ==
  /\ req[r].pc = "p_findUser"
  /\ LET rows == UsersByEmail(req[r].email)
     IN IF rows = {}
          THEN Answer(r, "reset", OkReset)
          ELSE \E resetToken \in ResetTokenSample :
                 Goto(r, [req[r] EXCEPT !.pc = "p_storeToken",
                                        !.uid = CHOOSE i \in rows : \A j \in rows : i <= j,
                                        !.resetToken = resetToken,
                                        !.expiresAt = now + ResetTtl])
  /\ UNCHANGED <<now, users, password_reset_tokens, sent, client,
                 login_attempts, mfa_codes, auth_tokens, limiter, scope>>

\* INSERT INTO password_reset_tokens (user_id, token, expires_at)
ResetStoreToken(r) ==
  /\ req[r].pc = "p_storeToken"
  /\ password_reset_tokens' =
       Append(password_reset_tokens,
              [user_id |-> req[r].uid, token |-> req[r].resetToken,
               expires_at |-> req[r].expiresAt])
  /\ Goto(r, [req[r] EXCEPT !.pc = "p_sendMail", !.expiresAt = 0])
  /\ UNCHANGED <<now, users, sent, client,
                 login_attempts, mfa_codes, auth_tokens, limiter, scope>>

\* sendEmail with the reset link, then the generic 200
ResetSendMail(r) ==
  /\ req[r].pc = "p_sendMail"
  /\ sent' = sendEmail(req[r].email, req[r].resetToken)
  /\ Answer(r, "reset", OkReset)
  /\ UNCHANGED <<now, users, password_reset_tokens, client,
                 login_attempts, mfa_codes, auth_tokens, limiter, scope>>

\* ----------------------------------------------------------------- faults
\* handler positions whose next statement is a query of the store, and those
\* whose next statement sends a mail
StorePcs ==
  {"l_findUser", "l_recordFail", "l_checkBlocked", "l_checkMfa", "l_storeMfa",
   "l_storeTokens", "m_verify", "m_findUser", "m_storeTokens", "m_markUsed",
   "r_findToken", "r_findUser", "r_revoke", "r_storeTokens", "o_revoke",
   "p_findUser", "p_storeToken"}

MailPcs == {"l_sendMfa", "p_sendMail"}

\* the awaited statement rejects: the handler's catch answers 500
Catch(r) ==
  /\ Answer(r, req[r].op, Err(500, MsgInternal))
  /\ UNCHANGED <<now, users, password_reset_tokens, sent, client,
                 login_attempts, mfa_codes, auth_tokens, limiter, scope>>

\* db.query rejects
StoreFails(r) == req[r].pc \in StorePcs /\ Catch(r)

\* a mailer whose failure goes unnoticed: the handler answers as if sent
MailFailsAlt(r) ==
  /\ req[r].pc \in MailPcs
  /\ Answer(r, req[r].op, IF req[r].pc = "l_sendMfa" THEN OkRequireMfa ELSE OkReset)
  /\ UNCHANGED <<now, users, password_reset_tokens, sent, client,
                 login_attempts, mfa_codes, auth_tokens, limiter, scope>>

\* sendEmail rejects
MailFails(r) == req[r].pc \in MailPcs /\ Catch(r)

\* ------------------------------------------------- browser: authService.js
\* token pairs a response of the server may carry
ClientPairs == { generateTokens(1, 0), generateTokens(1, 1) }

Server == <<now, users, password_reset_tokens, sent, login_attempts, mfa_codes,
            auth_tokens, limiter, req, reply, scope>>

setItem(storage, key, value) == [storage EXCEPT ![key] = value]

removeItem(storage, key) == [storage EXCEPT ![key] = Null]

\* localStorage.getItem(tokenKey) || sessionStorage.getItem(tokenKey)
getToken ==
  IF localStorage["token"] # Null THEN localStorage["token"] ELSE sessionStorage["token"]

getRefreshToken ==
  IF localStorage["refresh_token"] # Null
    THEN localStorage["refresh_token"] ELSE sessionStorage["refresh_token"]

\* saveTokens(data, remember), on the storage it is given
saveTokens(storage, data) ==
  LET s1 == IF data.token # Null THEN setItem(storage, "token", data.token) ELSE storage
  IN IF data.refresh_token # Null
       THEN setItem(s1, "refresh_token", data.refresh_token) ELSE s1

\* removeTokens, on one storage
removeTokens(storage) == removeItem(removeItem(storage, "token"), "refresh_token")

\* a caller stores the pair of a new session: saveTokens(data, remember)
ClientSaveTokens(data, remember) ==
  /\ "client" \in scope.ops
  /\ IF remember
       THEN localStorage' = saveTokens(localStorage, data) /\ UNCHANGED sessionStorage
       ELSE sessionStorage' = saveTokens(sessionStorage, data) /\ UNCHANGED localStorage
  /\ session' = [session EXCEPT !.remember = IF remember THEN "durable" ELSE "session"]
  /\ UNCHANGED Server

\* LoginScreen.handleSubmit, on a response with tokens
handleSubmit(data, rememberMe) ==
  /\ "client" \in scope.ops
  /\ IF rememberMe
       THEN /\ localStorage' = setItem(setItem(localStorage, "token", data.token),
                                        "refreshToken", data.refresh_token)
            /\ UNCHANGED sessionStorage
       ELSE /\ sessionStorage' = setItem(setItem(sessionStorage, "token", data.token),
                                          "refreshToken", data.refresh_token)
            /\ UNCHANGED localStorage
  /\ session' = [session EXCEPT !.remember = IF rememberMe THEN "durable" ELSE "session"]
  /\ UNCHANGED Server

\* the pair that LoginScreen.handleMfaSubmit stores
mockToken == [token |-> <<"mock", 0, 0>>, refresh_token |-> <<"mock_refresh", 0, 0>>]

\* LoginScreen.handleMfaSubmit, on the accepted code
handleMfaSubmit(rememberMe) ==
  /\ "client" \in scope.ops
  /\ IF rememberMe
       THEN /\ localStorage' = setItem(setItem(localStorage, "token", mockToken.token),
                                        "refreshToken", mockToken.refresh_token)
            /\ UNCHANGED sessionStorage
       ELSE /\ sessionStorage' = setItem(setItem(sessionStorage, "token", mockToken.token),
                                          "refreshToken", mockToken.refresh_token)
            /\ UNCHANGED localStorage
  /\ session' = [session EXCEPT !.remember = IF rememberMe THEN "durable" ELSE "session"]
  /\ UNCHANGED Server

\* refreshAccessToken up to its fetch: without a refresh token it throws
refreshAccessTokenCall ==
  /\ "client" \in scope.ops
  /\ session.call = "none"
  /\ getRefreshToken # Null
  /\ session' = [session EXCEPT !.call = "refresh", !.sentToken = getRefreshToken]
  /\ UNCHANGED <<localStorage, sessionStorage>>
  /\ UNCHANGED Server

\* the fetch of refreshAccessToken ends: a response that is ok carries a new
\* pair, one that is not ok removes the tokens, a network error changes nothing
refreshAccessTokenReturn(outcome, data) ==
  /\ session.call = "refresh"
  /\ outcome \in {"ok", "notOk", "networkError"}
  /\ CASE outcome = "ok" ->
            /\ localStorage' = saveTokens(localStorage, data)
            /\ UNCHANGED sessionStorage
            /\ session' = [session EXCEPT !.call = "none", !.sentToken = Null]
       [] outcome = "notOk" ->
            /\ localStorage' = removeTokens(localStorage)
            /\ sessionStorage' = removeTokens(sessionStorage)
            /\ session' = NoSession
       [] outcome = "networkError" ->
            /\ UNCHANGED <<localStorage, sessionStorage>>
            /\ session' = [session EXCEPT !.call = "none", !.sentToken = Null]
  /\ UNCHANGED Server

\* logout up to its fetch, with the Authorization header of getToken
logoutCall ==
  /\ "client" \in scope.ops
  /\ session.call = "none"
  /\ session' = [session EXCEPT !.call = "logout", !.sentToken = getToken]
  /\ UNCHANGED <<localStorage, sessionStorage>>
  /\ UNCHANGED Server

\* the fetch of logout ends, whatever the outcome: finally removeTokens
logoutReturn ==
  /\ session.call = "logout"
  /\ localStorage' = removeTokens(localStorage)
  /\ sessionStorage' = removeTokens(sessionStorage)
  /\ session' = NoSession
  /\ UNCHANGED Server

\* ------------------------------------------------------ account management
\* an account is deactivated out of band: users.is_active becomes FALSE
Deactivate(u) ==
  /\ "deactivate" \in scope.ops
  /\ users[u].username \in scope.names
  /\ users[u].is_active
  /\ users' = [users EXCEPT ![u].is_active = FALSE]
  /\ UNCHANGED <<now, password_reset_tokens, sent, client, login_attempts, mfa_codes,
                 auth_tokens, limiter, req, reply, scope>>

\* ------------------------------------------------------------------- clock
Tick ==
  /\ now + scope.step <= scope.maxTime
  /\ now' = now + scope.step
  /\ UNCHANGED <<users, password_reset_tokens, sent, client,
               login_attempts, mfa_codes, auth_tokens, limiter, req, reply, scope>>

\* ------------------------------------------------------------------- Next
Next ==
  \/ \E r \in Reqs, k \in Clients, u \in LoginNames, p \in LoginPasswords :
        LoginArrive(r, k, u, p)
  \/ \E r \in Reqs : LoginFindUser(r)
  \/ \E r \in Reqs : LoginRecordFail(r)
  \/ \E r \in Reqs : LoginCheckBlocked(r)
  \/ \E r \in Reqs : LoginCheckMfa(r)
  \/ \E r \in Reqs : LoginStoreMfa(r)
  \/ \E r \in Reqs : LoginSendMfa(r)
  \/ \E r \in Reqs : LoginStoreTokens(r)
  \/ \E r \in Reqs, c \in VerifyCodes : VerifyArrive(r, c)
  \/ \E r \in Reqs : VerifyLookup(r)
  \/ \E r \in Reqs : VerifyFindUser(r)
  \/ \E r \in Reqs : VerifyStoreTokens(r)
  \/ \E r \in Reqs : VerifyMarkUsed(r)
  \/ \E r \in Reqs : RefreshArrive(r)
  \/ \E r \in Reqs : RefreshFindToken(r)
  \/ \E r \in Reqs : RefreshFindUser(r)
  \/ \E r \in Reqs : RefreshRevoke(r)
  \/ \E r \in Reqs : RefreshStoreTokens(r)
  \/ \E r \in Reqs : LogoutArrive(r)
  \/ \E r \in Reqs : LogoutRevoke(r)
  \/ \E r \in Reqs, e \in ResetEmails : ResetArrive(r, e)
  \/ \E r \in Reqs : ResetFindUser(r)
  \/ \E r \in Reqs : ResetStoreToken(r)
  \/ \E r \in Reqs : ResetSendMail(r)
  \/ \E d \in ClientPairs, remember \in BOOLEAN : ClientSaveTokens(d, remember)
  \/ \E d \in ClientPairs, rememberMe \in BOOLEAN : handleSubmit(d, rememberMe)
  \/ \E rememberMe \in BOOLEAN : handleMfaSubmit(rememberMe)
  \/ refreshAccessTokenCall
  \/ \E o \in {"ok", "notOk", "networkError"}, d \in ClientPairs :
        refreshAccessTokenReturn(o, d)
  \/ logoutCall
  \/ logoutReturn
  \/ \E u \in UserIds : Deactivate(u)
  \/ Tick

Spec == Init /\ [][Next]_vars

\* the same program with a store and a mailer that may fail
NextFaults ==
  \/ Next
  \/ \E r \in Reqs : StoreFails(r)
  \/ \E r \in Reqs : MailFails(r)

InitFaults == Init /\ scope \in FaultScopes

SpecFaults == InitFaults /\ [][NextFaults]_vars


\* ================================================================== claims
\* the step of request r that leaves handler position pc
Leaves(r, pc) == req[r].pc = pc /\ req'[r].pc # pc

\* the step of request r that ends it with the answer resp
Answers(r, op, resp) == req'[r] = Idle /\ reply' = Reply(op, resp)

RowsWithCode(code) == { i \in Indices(mfa_codes) : mfa_codes[i].code = code }

\* the code value has been consumed: a verification marked a row of it used
Consumed(code) == \E i \in RowsWithCode(code) : mfa_codes[i].used

\* ---- C1
\* C1, as stated: once verifyMfa has consumed a code, every later verifyMfa
\* presenting the same code value is answered 401 "invalid or expired" and
\* ends without persisting a token pair.
C1_ConsumedCodeAlwaysRejected ==
  [][\A r \in Reqs :
       (Leaves(r, "m_verify") /\ Consumed(req[r].code))
          => Answers(r, "verify", Err(401, MsgCodeInvalid))]_vars

\* C1, amended: a row of mfa_codes that is marked used stays used and is never
\* matched again; a verifyMfa presenting a consumed code value is answered 401
\* and persists nothing unless a later login stored a new, still unused row
\* with the same value.
C1_UsedRowNeverMatches ==
  [][/\ \A i \in Indices(mfa_codes) :
          mfa_codes[i].used => (i \in Indices(mfa_codes') /\ mfa_codes'[i].used)
     /\ \A r \in Reqs :
          Leaves(r, "m_verify") =>
            /\ (req'[r].pc = "m_findUser") =>
                  (req'[r].hit \in RowsWithCode(req[r].code)
                     /\ ~mfa_codes[req'[r].hit].used)
            /\ (Consumed(req[r].code)
                  /\ \A i \in RowsWithCode(req[r].code) : mfa_codes[i].used)
                 => (Answers(r, "verify", Err(401, MsgCodeInvalid))
                       /\ auth_tokens' = auth_tokens)]_vars

\* every issued code value has been consumed, none has expired, and the last
\* verification, which came after, was refused
C1_Witness ==
  /\ reply = Reply("verify", Err(401, MsgCodeInvalid))
  /\ { mfa_codes[i].code : i \in Indices(mfa_codes) } = MfaCodeSample
  /\ \A i \in Indices(mfa_codes) : mfa_codes[i].used /\ mfa_codes[i].expires_at > now

\* ---- C2
\* C2: lookup and marking of an MFA code are atomic: once the verifications
\* have answered, no row of mfa_codes has yielded more than one token pair.
C2_NoDoubleRedemption ==
  (\A r \in Reqs : req[r].op # "verify") =>
     \A i, j \in Indices(auth_tokens) :
        (/\ auth_tokens[i].via = "mfa" /\ auth_tokens[j].via = "mfa"
         /\ auth_tokens[i].src = auth_tokens[j].src) => i = j

\* ---- C3
\* the refresh token string was presented to a refresh that succeeded
UsedByRefresh(rt) ==
  \E i \in Indices(auth_tokens) :
     /\ auth_tokens[i].via = "refresh"
     /\ auth_tokens[auth_tokens[i].src].refresh_token = rt

\* C3: a refresh token string that a successful refresh has used is refused
\* (401 "invalid or expired") by every later refresh, which mints nothing.
C3_UsedRefreshTokenRejected ==
  [][\A r \in Reqs :
       (Leaves(r, "r_findToken") /\ UsedByRefresh(req[r].presented))
          => Answers(r, "refresh", Err(401, MsgRefreshInvalid))]_vars

\* ---- C4
\* C4: lookup and revocation of a refresh token are atomic: no row of
\* auth_tokens has been exchanged for more than one new pair.
C4_NoDoubleRefresh ==
  \A i, j \in Indices(auth_tokens) :
     (/\ auth_tokens[i].via = "refresh" /\ auth_tokens[j].via = "refresh"
      /\ auth_tokens[i].src = auth_tokens[j].src) => i = j


\* ---- C5
\* failed attempts of the user inside the trailing 30 minutes
FailedInWindow(uid) ==
  Cardinality({ i \in Indices(login_attempts) :
      /\ login_attempts[i].user_id = uid
      /\ ~login_attempts[i].success
      /\ now - login_attempts[i].created_at < LockWindow })

Locked(uid) == FailedInWindow(uid) >= LockThreshold

\* C5, as stated: while a user has 5 or more failed attempts inside the
\* trailing 30 minutes, no login of that user stores a token pair or an MFA
\* code.
C5_NothingStoredWhileLocked ==
  [][\A r \in Reqs :
       (Leaves(r, "l_storeTokens") \/ Leaves(r, "l_storeMfa"))
          => ~Locked(req[r].uid)]_vars

\* C5, amended: a login whose lockout check finds 5 or more failed attempts
\* inside the trailing 30 minutes ends there and stores nothing; a login with
\* a wrong password stores no token pair and no MFA code; every login that
\* stores a token pair or an MFA code has passed the check with fewer than 5.
C5_LockedCheckStoresNothing ==
  [][\A r \in Reqs :
       /\ (Leaves(r, "l_checkBlocked") /\ Locked(req[r].uid))
            => (req'[r] = Idle /\ UNCHANGED <<mfa_codes, auth_tokens>>)
       /\ Leaves(r, "l_recordFail")
            => (req'[r] = Idle /\ UNCHANGED <<mfa_codes, auth_tokens>>)
       /\ (req'[r].pc = "l_checkMfa" /\ req[r].pc # "l_checkMfa")
            => (req[r].pc = "l_checkBlocked" /\ ~Locked(req[r].uid)
                  /\ req'[r].uid = req[r].uid)
       /\ (req'[r].pc \in {"l_storeMfa", "l_storeTokens"} /\ req[r].pc # req'[r].pc)
            => (req[r].pc = "l_checkMfa" /\ req'[r].uid = req[r].uid)]_vars

\* the MFA user is locked out, a login has been refused for it, nothing stored
C5_Witness ==
  /\ reply = Reply("login", Err(401, MsgBlocked))
  /\ Locked(2)
  /\ mfa_codes = <<>> /\ auth_tokens = <<>>

\* ---- C6
\* what every step in which a login arrives in slot r looks like
LoginArrival(r) ==
  /\ req[r].pc = "idle"
  /\ \A q \in Reqs \ {r} : req'[q] = req[q]
  /\ req'[r].pc = "l_findUser" \/ (req'[r].pc = "idle" /\ reply'.op = "login")

\* the credentials are those of the active user u
CorrectLogin(name, pw, u) ==
  /\ u \in UsersByName(Trim(name))
  /\ users[u].is_active
  /\ BcryptCompare(Trim(pw), users[u].password_hash)

\* C6, as stated: with 5 failed attempts of an active user inside 30 minutes,
\* a further login of that user with the correct password is answered by the
\* lockout error 401 "Conta bloqueada...", and by nothing else.
C6_SixthAttemptLockedOut ==
  [][\A r \in Reqs :
       /\ LoginArrival(r) =>
            \A u \in UserIds, name \in scope.names, pw \in scope.passwords, k \in scope.clients :
               (Locked(u) /\ CorrectLogin(name, pw, u) /\ LoginArrive(r, k, name, pw))
                  => req'[r].pc = "l_findUser"
       /\ \A u \in UserIds :
            (Leaves(r, "l_findUser") /\ Locked(u)
               /\ CorrectLogin(req[r].username, req[r].password, u))
               => req'[r].pc = "l_checkBlocked"
       /\ (Leaves(r, "l_checkBlocked") /\ Locked(req[r].uid))
            => Answers(r, "login", Err(401, MsgBlocked))]_vars

\* C6, amended: such a login is answered by the lockout error when its lockout
\* check finds the 5 failures inside the trailing 30 minutes, unless the rate
\* limiter has refused it before with 429.
C6_LockedOutUnlessThrottled ==
  [][\A r \in Reqs :
       /\ LoginArrival(r) =>
            \A u \in UserIds, name \in scope.names, pw \in scope.passwords, k \in scope.clients :
               (Locked(u) /\ CorrectLogin(name, pw, u) /\ LoginArrive(r, k, name, pw))
                  => \/ req'[r].pc = "l_findUser"
                     \/ /\ limiter[k].hits >= RateMax /\ now < limiter[k].resetTime
                        /\ Answers(r, "login", Err(429, MsgRateLimited))
       /\ \A u \in UserIds :
            (Leaves(r, "l_findUser") /\ Locked(u)
               /\ CorrectLogin(req[r].username, req[r].password, u))
               => req'[r].pc = "l_checkBlocked"
       /\ (Leaves(r, "l_checkBlocked") /\ Locked(req[r].uid))
            => Answers(r, "login", Err(401, MsgBlocked))]_vars

\* user 1 has failed twice more in this run, is locked out, and a login that
\* the limiter let through has been answered by the lockout error
C6_Witness ==
  /\ reply = Reply("login", Err(401, MsgBlocked))
  /\ Locked(1)
  /\ Cardinality({ i \in Indices(login_attempts) :
        login_attempts[i].user_id = 1 /\ login_attempts[i].created_at >= 0 }) >= 2
  /\ \A k \in Clients : limiter[k].hits <= RateMax

\* ---- C7
\* C7: a login with the correct password of an active user that the limiter
\* lets through, and whose lockout check finds fewer than 5 failed attempts
\* inside the trailing 30 minutes (older ones do not count, and nothing has to
\* unlock the account), is answered 200 with tokens or requireMfa.
C7_LockoutAgesOut ==
  [][\A r \in Reqs :
       /\ LoginArrival(r) =>
            \A u \in UserIds, name \in scope.names, pw \in scope.passwords, k \in scope.clients :
               (/\ CorrectLogin(name, pw, u)
                /\ ~(limiter[k].hits >= RateMax /\ now < limiter[k].resetTime)
                /\ LoginArrive(r, k, name, pw))
                  => req'[r].pc = "l_findUser"
       /\ \A u \in UserIds :
            (Leaves(r, "l_findUser") /\ CorrectLogin(req[r].username, req[r].password, u))
               => (req'[r].pc = "l_checkBlocked" /\ req'[r].uid = u)
       /\ (Leaves(r, "l_checkBlocked") /\ ~Locked(req[r].uid))
            => req'[r].pc = "l_checkMfa"
       /\ Leaves(r, "l_checkMfa") => req'[r].pc \in {"l_storeMfa", "l_storeTokens"}
       /\ Leaves(r, "l_storeMfa") => req'[r].pc = "l_sendMfa"
       /\ Leaves(r, "l_sendMfa") => Answers(r, "login", OkRequireMfa)
       /\ Leaves(r, "l_storeTokens") => Answers(r, "login", OkTokens)]_vars

\* 30 minutes after the start the five failures of user 1 have left the
\* window, and a login of user 1 has just been answered with tokens
C7_Witness ==
  /\ now >= LockWindow
  /\ reply = Reply("login", OkTokens)
  /\ Cardinality({ i \in Indices(login_attempts) : login_attempts[i].user_id = 1 })
        >= LockThreshold
  /\ ~Locked(1)
  /\ \E i \in Indices(auth_tokens) :
        auth_tokens[i].user_id = 1 /\ auth_tokens[i].token = JwtSign("JWT_SECRET", 1, now)

\* ---- C8
\* the login names a user of the table and carries a wrong password
WrongPassword(name, pw) ==
  /\ UsersByName(name) # {}
  /\ \A i \in UsersByName(name) : ~BcryptCompare(pw, users[i].password_hash)

\* C8: a login with a name that is not in the table and a login with a wrong
\* password for a name that is in the table get the same answer, 401
\* "Usuario ou senha invalidos".
C8_EnumerationResistance ==
  [][\A r \in Reqs :
       /\ (Leaves(r, "l_findUser") /\ UsersByName(req[r].username) = {})
            => Answers(r, "login", Err(401, MsgInvalidCredentials))
       /\ (Leaves(r, "l_findUser") /\ WrongPassword(req[r].username, req[r].password))
            => \/ req'[r].pc = "l_recordFail"
               \/ Answers(r, "login", Err(401, MsgInvalidCredentials))
       /\ Leaves(r, "l_recordFail")
            => Answers(r, "login", Err(401, MsgInvalidCredentials))]_vars

\* ---- C9
\* the client has used up the requests of its current window
QuotaUsed(k) == limiter[k].hits >= RateMax /\ now < limiter[k].resetTime

\* C9: once a client has made 5 login requests in its 15-minute window, every
\* further login request of that client in the window is answered 429,
\* whatever the credentials, and changes neither the attempt ledger nor the
\* MFA codes nor the token pairs.
C9_ThrottledLogin ==
  [][\A r \in Reqs :
       LoginArrival(r) =>
         \A k \in scope.clients, name \in scope.names, pw \in scope.passwords :
            (QuotaUsed(k) /\ LoginArrive(r, k, name, pw))
               => /\ Answers(r, "login", Err(429, MsgRateLimited))
                  /\ UNCHANGED <<login_attempts, mfa_codes, auth_tokens>>]_vars

\* a sixth request of the window has been refused, while the other client is
\* still served
C9_Witness ==
  /\ reply = Reply("login", Err(429, MsgRateLimited))
  /\ \E k \in Clients : limiter[k].hits > RateMax /\ now < limiter[k].resetTime
  /\ \E k \in Clients : limiter[k].hits < RateMax

\* ---- C10
\* every token pair of an MFA user comes from a verification that matched a
\* code of that user or from the refresh of an earlier pair of that user; no
\* login of an MFA user is about to store a token pair
C10_Provenance ==
  /\ \A i \in Indices(auth_tokens) :
        users[auth_tokens[i].user_id].mfa_enabled =>
           \/ /\ auth_tokens[i].via = "mfa"
              /\ auth_tokens[i].src \in Indices(mfa_codes)
              /\ mfa_codes[auth_tokens[i].src].user_id = auth_tokens[i].user_id
           \/ /\ auth_tokens[i].via = "refresh"
              /\ auth_tokens[i].src \in 1..(i - 1)
              /\ auth_tokens[auth_tokens[i].src].user_id = auth_tokens[i].user_id
  /\ \A r \in Reqs :
        req[r].pc = "l_storeTokens" => ~users[req[r].uid].mfa_enabled

\* the steps of a login of an MFA user after the lockout check, and the rows
\* a verification and a refresh start from
C10_Steps ==
  \A r \in Reqs :
     /\ (Leaves(r, "l_checkMfa") /\ users[req[r].uid].mfa_enabled)
          => (req'[r].pc = "l_storeMfa" /\ auth_tokens' = auth_tokens)
     /\ Leaves(r, "l_storeMfa")
          => /\ req'[r].pc = "l_sendMfa"
             /\ Len(mfa_codes') = Len(mfa_codes) + 1
             /\ mfa_codes'[Len(mfa_codes')].user_id = req[r].uid
             /\ ~mfa_codes'[Len(mfa_codes')].used
             /\ auth_tokens' = auth_tokens
     /\ Leaves(r, "l_sendMfa")
          => (Answers(r, "login", OkRequireMfa) /\ auth_tokens' = auth_tokens)
     /\ (Leaves(r, "m_verify") /\ req'[r].pc = "m_findUser")
          => /\ mfa_codes[req'[r].hit].code = req[r].code
             /\ ~mfa_codes[req'[r].hit].used
             /\ mfa_codes[req'[r].hit].expires_at > now
             /\ req'[r].uid = mfa_codes[req'[r].hit].user_id
     /\ (Leaves(r, "r_findToken") /\ req'[r].pc = "r_findUser")
          => /\ ~auth_tokens[req'[r].hit].revoked
             /\ req'[r].uid = auth_tokens[req'[r].hit].user_id

LoggedOut(rt) ==
  \E i \in Indices(auth_tokens) :
     auth_tokens[i].refresh_token = rt /\ auth_tokens[i].logged_out

\* C11: a logout revokes every pair that carries its access token; afterwards
\* a refresh presenting the refresh token of such a pair is refused (401
\* "invalid or expired"); no step deletes a row of auth_tokens, changes its
\* strings or sets its revoked flag back to false.
C11_LogoutRevokesPair ==
  [][/\ \A i \in Indices(auth_tokens) :
          /\ i \in Indices(auth_tokens')
          /\ auth_tokens'[i].token = auth_tokens[i].token
          /\ auth_tokens'[i].refresh_token = auth_tokens[i].refresh_token
          /\ auth_tokens[i].revoked => auth_tokens'[i].revoked
     /\ \A r \in Reqs :
          /\ (Leaves(r, "o_revoke") /\ Answers(r, "logout", OkLogout))
               => \A i \in Indices(auth_tokens) :
                     auth_tokens[i].token = req[r].presented => auth_tokens'[i].revoked
          /\ (Leaves(r, "r_findToken") /\ LoggedOut(req[r].presented))
               => Answers(r, "refresh", Err(401, MsgRefreshInvalid))]_vars

\* ---- C12
\* C12: a logout that carries a bearer access token is always answered with
\* success (200), also when the revoking UPDATE fails.
C12_LogoutAlwaysSucceeds ==
  [][\A r \in Reqs :
       Leaves(r, "o_revoke") => Answers(r, "logout", OkLogout)]_vars

\* ---- C13
\* C13: a reset request with a well-formed address gets the same answer
\* whether or not the address belongs to a user: the generic 200, or 500 when
\* the lookup of the user itself fails; once the lookup has been made, every
\* way the request can end (also a failing INSERT or a failing mail) is the
\* generic 200 an unknown address gets.
C13_ResetAnswerIdentical ==
  [][\A r \in Reqs :
       /\ (Leaves(r, "p_findUser") /\ UsersByEmail(req[r].email) = {})
            => \/ Answers(r, "reset", OkReset)
               \/ Answers(r, "reset", Err(500, MsgInternal))
       /\ (Leaves(r, "p_findUser") /\ UsersByEmail(req[r].email) # {})
            => \/ req'[r].pc = "p_storeToken"
               \/ Answers(r, "reset", Err(500, MsgInternal))
       /\ (req[r].pc \in {"p_storeToken", "p_sendMail"} /\ req'[r].pc = "idle")
            => Answers(r, "reset", OkReset)]_vars

\* ---- C14
\* C14: a login answers requireMfa only in the step in which the mail with
\* the code has been delivered to the user's address; when the send fails the
\* login is answered 500, not requireMfa and not tokens, and no token pair is
\* stored.
C14_FailedSendNotSuccess ==
  [][\A r \in Reqs :
       /\ (req[r].pc # "idle" /\ Answers(r, "login", OkRequireMfa))
            => /\ req[r].pc = "l_sendMfa"
               /\ sent' = Append(sent, [to |-> users[req[r].uid].email,
                                        body |-> req[r].code])
       /\ (Leaves(r, "l_sendMfa") /\ sent' = sent)
            => /\ Answers(r, "login", Err(500, MsgInternal))
               /\ auth_tokens' = auth_tokens]_vars

\* a code has been stored for the MFA user, its mail was never delivered, and
\* the login has been answered 500
C14_Witness ==
  /\ reply = Reply("login", Err(500, MsgInternal))
  /\ \A r \in Reqs : req[r].pc = "idle"
  /\ Len(mfa_codes) = 1 /\ mfa_codes[1].user_id = 2
  /\ sent = <<>>
  /\ auth_tokens = <<>>

\* the codes of user uid that a verification could still redeem
LiveCodes(uid) ==
  { i \in Indices(mfa_codes) :
      /\ mfa_codes[i].user_id = uid
      /\ mfa_codes[i].used = FALSE
      /\ mfa_codes[i].expires_at > now }

\* C15: at every moment each user has at most one MFA code that is neither
\* used nor expired.
C15_AtMostOneLiveCode ==
  \A uid \in UserIds : Cardinality(LiveCodes(uid)) <= 1

\* the rows of code that were all inserted more than ten minutes ago
OnlyStale(code) ==
  /\ RowsWithCode(code) # {}
  /\ \A i \in RowsWithCode(code) : now - mfa_codes[i].issued_at > MfaTtl

\* C16: a verification whose code matches only rows issued more than ten
\* minutes earlier is answered 401 invalid-or-expired at its lookup, whether
\* or not a row was used, and stores no token row.
C16_StaleCodeRejected ==
  [][\A r \in Reqs :
       (Leaves(r, "m_verify") /\ OnlyStale(req[r].code))
          => /\ Answers(r, "verify", Err(401, MsgCodeInvalid))
             /\ auth_tokens' = auth_tokens]_vars

\* a verification of a never-used code is at its lookup more than ten
\* minutes after the code was issued
C16_Witness ==
  /\ Len(mfa_codes) = 1
  /\ mfa_codes[1].used = FALSE
  /\ now - mfa_codes[1].issued_at > MfaTtl
  /\ auth_tokens = <<>>
  /\ \E r \in Reqs : req[r].pc = "m_verify" /\ req[r].code = mfa_codes[1].code

\* the login in slot r names the active user u and its password does not match
PasswordFails(r, u) ==
  /\ req[r].op = "login"
  /\ u \in UsersByName(req[r].username)
  /\ users[u].is_active
  /\ ~BcryptCompare(req[r].password, users[u].password_hash)

\* C17: a login whose password check fails for an existing active user
\* appends exactly one failed-attempt record, for that user, and then ends;
\* the ledger grows in no other step, so no other outcome of a login (unknown
\* user, inactive account, validation error, lockout, requireMfa, tokens)
\* appends a record.
C17_OneRecordPerFailedCheck ==
  [][/\ \A r \in Reqs :
          /\ \A u \in UserIds :
                (Leaves(r, "l_findUser") /\ PasswordFails(r, u))
                   => /\ req'[r].pc = "l_recordFail" /\ req'[r].uid = u
                      /\ login_attempts' = login_attempts
          /\ (req[r].pc # "l_recordFail" /\ req'[r].pc = "l_recordFail")
                => /\ req[r].pc = "l_findUser"
                   /\ PasswordFails(r, req'[r].uid)
          /\ Leaves(r, "l_recordFail")
                => /\ login_attempts' =
                        Append(login_attempts, [user_id |-> req[r].uid, success |-> FALSE,
                                                created_at |-> now])
                   /\ req'[r] = Idle
     /\ login_attempts' # login_attempts
          => \E r \in Reqs : Leaves(r, "l_recordFail")]_vars

\* one wrong password for user a has been recorded and answered
C17_Witness ==
  /\ login_attempts = <<[user_id |-> 1, success |-> FALSE, created_at |-> 0]>>
  /\ reply = Reply("login", Err(401, MsgInvalidCredentials))
  /\ \A r \in Reqs : req[r] = Idle

\* the failed attempts of uid that are inside the window as seen from time t
FailedSince(uid, t) ==
  Cardinality({ i \in Indices(login_attempts) :
      /\ login_attempts[i].user_id = uid
      /\ ~login_attempts[i].success
      /\ t - login_attempts[i].created_at < LockWindow })

\* C18: the attempt ledger is append-only: every step keeps the records it
\* has, unaltered and in place, so a user's failed count inside the trailing
\* 30 minutes goes down only by records leaving the window as time passes.
C18_LedgerAppendOnly ==
  [][/\ Len(login_attempts') >= Len(login_attempts)
     /\ \A i \in Indices(login_attempts) : login_attempts'[i] = login_attempts[i]
     /\ \A uid \in UserIds : FailedInWindow(uid)' >= FailedSince(uid, now')]_vars

\* user a has signed in after a failed attempt, which is still on record
C18_Witness ==
  /\ reply = Reply("login", OkTokens)
  /\ \E i \in Indices(auth_tokens) : auth_tokens[i].user_id = 1
  /\ \E i \in Indices(login_attempts) :
        login_attempts[i].user_id = 1 /\ login_attempts[i].created_at >= 0
  /\ FailedInWindow(1) > MaxPreload

\* C19: refresh revokes the presented pair before it persists the new one:
\* a refresh that is about to insert has its presented row revoked already,
\* and never are a row and a row minted from it by refresh both unrevoked.
C19_RevokedBeforePersisted ==
  /\ \A r \in Reqs :
        req[r].pc = "r_storeTokens" => auth_tokens[req[r].hit].revoked
  /\ \A j \in Indices(auth_tokens) :
        auth_tokens[j].via = "refresh"
          => ~(~auth_tokens[auth_tokens[j].src].revoked /\ ~auth_tokens[j].revoked)

\* a refresh has been answered with a new pair, which is the only valid one
C19_Witness ==
  /\ reply = Reply("refresh", OkTokens)
  /\ Len(auth_tokens) = 2
  /\ auth_tokens[2].via = "refresh" /\ auth_tokens[2].src = 1
  /\ auth_tokens[1].revoked /\ ~auth_tokens[2].revoked

\* C20: in a session started without remember-me no step writes a token to
\* durable storage: localStorage keeps each key as it was or loses it,
\* through any sequence of saveTokens, refreshAccessToken and logout.
C20_SessionTokensNotDurable ==
  [][session'.remember = "session"
       => \A k \in StorageKeys :
             localStorage'[k] = localStorage[k] \/ localStorage'[k] = Null]_vars

\* ---- C21
\* the step writes no table of the store
StoreUntouched ==
  UNCHANGED <<users, login_attempts, mfa_codes, auth_tokens, password_reset_tokens>>

\* the request in slot r ends in this step with a 400 and nothing else happens
Rejected400(r, op) ==
  /\ req'[r] = Idle
  /\ reply'.op = op /\ reply'.resp.status = 400
  /\ StoreUntouched

MissingLogin(name, pw) == Trim(name) = <<>> \/ Trim(pw) = <<>>

\* C21, as stated: a login with an empty or whitespace-only username or
\* password, a verification without a code and a refresh without a refresh
\* token are answered 400 at once, with no lookup and no table written.
C21_MissingInputRejected ==
  [][\A r \in Reqs :
       /\ LoginArrival(r) =>
            \A k \in scope.clients, name \in scope.names, pw \in scope.passwords :
               (MissingLogin(name, pw) /\ LoginArrive(r, k, name, pw))
                  => Rejected400(r, "login")
       /\ (req[r].pc = "idle" /\ VerifyArrive(r, "")) => Rejected400(r, "verify")
       /\ (req[r].pc = "idle" /\ RefreshArriveWith(r, <<>>)) => Rejected400(r, "refresh")]_vars

\* C21, amended: the same, except that a login from a client that is over
\* its rate limit is answered 429 before validation; it performs no lookup
\* and writes no table either.
C21_MissingInputRejectedOrThrottled ==
  [][\A r \in Reqs :
       /\ LoginArrival(r) =>
            \A k \in scope.clients, name \in scope.names, pw \in scope.passwords :
               (MissingLogin(name, pw) /\ LoginArrive(r, k, name, pw))
                  => \/ Rejected400(r, "login")
                     \/ /\ limiter[k].hits >= RateMax /\ now < limiter[k].resetTime
                        /\ Answers(r, "login", Err(429, MsgRateLimited))
                        /\ StoreUntouched
       /\ (req[r].pc = "idle" /\ VerifyArrive(r, "")) => Rejected400(r, "verify")
       /\ (req[r].pc = "idle" /\ RefreshArriveWith(r, <<>>)) => Rejected400(r, "refresh")]_vars

\* a login without a password has been refused by validation, within the
\* client's quota, and no table has a row
C21_Witness ==
  /\ reply = Reply("login", Err(400, MsgPasswordRequired))
  /\ \A r \in Reqs : req[r] = Idle
  /\ \A k \in Clients : limiter[k].hits <= RateMax
  /\ login_attempts = <<>> /\ mfa_codes = <<>> /\ auth_tokens = <<>>

\* ---- C22
\* C22: when the client's logout() completes, whatever its fetch did, no key
\* of localStorage or sessionStorage holds a token.
C22_LogoutClearsTokens ==
  [][(session.call = "logout" /\ session'.call = "none")
       => \A k \in StorageKeys : localStorage'[k] = Null /\ sessionStorage'[k] = Null]_vars

\* ---- C23
\* the rows that this step revokes
NewlyRevoked ==
  { i \in Indices(auth_tokens) : ~auth_tokens[i].revoked /\ auth_tokens'[i].revoked }

\* C23: the stored pairs have pairwise distinct access token strings and
\* pairwise distinct refresh token strings, also when minted for one user in
\* one second; so a revocation (by logout or by rotation) revokes one pair
\* only, and a pair minted by refresh does not carry the refresh token string
\* of the pair it was exchanged for.
C23_TokenStringsUnique ==
  [][/\ \A i, j \in Indices(auth_tokens') :
          i # j => /\ auth_tokens'[i].token # auth_tokens'[j].token
                   /\ auth_tokens'[i].refresh_token # auth_tokens'[j].refresh_token
     /\ Cardinality(NewlyRevoked) <= 1
     /\ \A j \in Indices(auth_tokens') :
          auth_tokens'[j].via = "refresh"
             => auth_tokens'[j].refresh_token
                   # auth_tokens'[auth_tokens'[j].src].refresh_token]_vars

\* ---- C24
\* the rows of mfa_codes whose used flag this step changes
UsedChanged ==
  { i \in Indices(mfa_codes) : mfa_codes'[i].used # mfa_codes[i].used }

\* C24: the step of a verification that marks its code used changes the used
\* flag of the row it matched and of no other row, also when another row
\* holds the same code value; that row stays redeemable.
C24_MarksOnlyMatchedRow ==
  [][\A r \in Reqs :
       Leaves(r, "m_markUsed") => UsedChanged \subseteq {req[r].hit}]_vars

\* ---- C25
\* the positions at which login, verifyMfa and refresh read the user's row
UserLookups == {"l_findUser", "m_findUser", "r_findUser"}

\* C25: no token pair is issued for a user who is inactive: a login,
\* verification or refresh whose user lookup finds the account inactive ends
\* there and does not go on to mint and persist a pair, also when the account
\* was deactivated after the MFA-required login and before the verification.
C25_NoTokensForInactive ==
  [][\A r \in Reqs :
       (req[r].pc \in UserLookups /\ req'[r].pc \notin {req[r].pc, "idle"})
          => users[req'[r].uid].is_active]_vars

\* ---- C26
\* C26: a verification that has persisted its token pair does not end in an
\* error: the step that follows the insert answers 200 with the tokens and
\* leaves the matched code marked used, also when a store operation fails.
C26_StoredPairMeansCodeUsed ==
  [][\A r \in Reqs :
       Leaves(r, "m_markUsed")
          => /\ Answers(r, "verify", OkTokens)
             /\ mfa_codes'[req[r].hit].used]_vars

====
